---- MODULE Spec2Model ----
(***************************************************************************)
(* The study workflow of backend/workflows: a LangGraph StateGraph         *)
(*   planner -> retrieval -> quiz_generator -> [human_review] -> grading   *)
(*   -> feedback -> (should_continue: quiz_generator | END)                *)
(* compiled with a MemorySaver checkpointer and interrupt_before =         *)
(* ["human_review"], driven by start_study_flow / submit_answers and the   *)
(* HTTP handlers of api/routers/workflow.py.                               *)
(*                                                                         *)
(* A workflow state is a Python dict: here a function from field names to  *)
(* values whose DOMAIN is the set of keys present.  Optional values are    *)
(* sequences of length at most one: None is <<>>, a present value x is     *)
(* <<x>>.  A text is a sequence of one-character strings.                  *)
(***************************************************************************)
EXTENDS Integers, Sequences, FiniteSets, TLC

\* ------------------------------------------------------------- bounds
\* number of start / submit-answers requests served in one behaviour
MaxCalls == 4
\* the points of a generated question and the total_points of a generated quiz
MaxPoints == 2
MaxTotal == 3
\* number of requests served in one behaviour with reads and restarts
MaxRequests == 3
\* number of requests served in one behaviour with two sessions
MaxPairCalls == 4
\* number of requests served in one behaviour of retry cycles
MaxRetryCalls == 5

\* ------------------------------------------------------ program constants
PassScore == 60
MaxRetries == 3
MaxKeywords == 5
FewDocs == 3
PointsPerKeyPoint == 2
KeyPointQueries == 2
TopScoreTenths == 10
ExtraScoreTenths == 7

\* ------------------------------------------------------------ Optional
None == <<>>
Some(x) == <<x>>
IsNone(v) == v = <<>>
Val(v) == v[1]

\* the sequence with the elements f[1], ..., f[n]
Sequence(f) == f \o <<>>

\* dict.get(key, default)
Get(d, k, default) == IF k \in DOMAIN d THEN d[k] ELSE default

Min(a, b) == IF a < b THEN a ELSE b
Max(a, b) == IF a > b THEN a ELSE b

\* --------------------------------------------------------------- texts
Space == " "

UpperChar(c) == CASE c = "a" -> "A" [] c = "b" -> "B" [] OTHER -> c
LowerChar(c) == CASE c = "A" -> "a" [] c = "B" -> "b" [] OTHER -> c

\* str.upper / str.lower
RECURSIVE Upper(_)
Upper(t) == IF t = <<>> THEN <<>> ELSE <<UpperChar(Head(t))>> \o Upper(Tail(t))
RECURSIVE Lower(_)
Lower(t) == IF t = <<>> THEN <<>> ELSE <<LowerChar(Head(t))>> \o Lower(Tail(t))

RECURSIVE LStrip(_)
LStrip(t) == IF t # <<>> /\ Head(t) = Space THEN LStrip(Tail(t)) ELSE t

RECURSIVE RStrip(_)
RStrip(t) ==
    IF t # <<>> /\ t[Len(t)] = Space THEN RStrip(SubSeq(t, 1, Len(t) - 1)) ELSE t

\* str.strip
Strip(t) == RStrip(LStrip(t))

\* the first word of a text that starts with a non-space character
RECURSIVE FirstWord(_)
FirstWord(t) ==
    IF t = <<>> \/ Head(t) = Space THEN <<>> ELSE <<Head(t)>> \o FirstWord(Tail(t))

\* str.split(): the whitespace-separated words
RECURSIVE Split(_)
Split(t) ==
    LET s == LStrip(t) IN
    IF s = <<>> THEN <<>>
    ELSE LET w == FirstWord(s) IN <<w>> \o Split(SubSeq(s, Len(w) + 1, Len(s)))

\* kw in text (substring containment)
Contains(text, kw) ==
    \E i \in 0..(Len(text) - Len(kw)) : SubSeq(text, i + 1, i + Len(kw)) = kw

\* seq[:n]
Take(s, n) == SubSeq(s, 1, Min(n, Len(s)))


\* ---------------------------------------------------- capability results
\* A call of the chat model, the retriever or the index either raises (None)
\* or returns a value (Some(v)).

\* the structured plan the model returns to planner_node
PlanA ==
    [topic |-> "topic", objectives |-> <<"o1", "o2", "o3">>,
     key_points |-> <<"k1", "k2", "k3", "k4", "k5">>,
     difficulty |-> "beginner", estimated_time |-> 30]

Plans == {PlanA}

Doc(c) == [page_content |-> c, metadata |-> "meta"]

\* what the index and the retriever do during one retrieval_node call:
\* index  "ok" | "missing" (FileNotFoundError) | "error" (any other exception)
\* main   the documents of the primary query
\* extra  the documents of a key-point query
\* extra_fail  the key-point query (1, 2) that raises, 0 for none
RetrievalOutcomes ==
    { [index |-> "missing", main |-> <<>>, extra |-> <<>>, extra_fail |-> 0],
      [index |-> "ok", main |-> <<Doc("d1")>>,
       extra |-> <<Doc("d1"), Doc("d2"), Doc("d3")>>, extra_fail |-> 0] }

Question(id, type, answer, points) ==
    [id |-> id, type |-> type, question |-> "text", options |-> None,
     answer |-> answer, explanation |-> "why", points |-> points]

\* the structured quizzes the model returns to quiz_generator_node
QuizChoice ==
    [questions |-> << Question("q1", "multiple_choice", <<"A">>, 10),
                      Question("q2", "fill_blank", <<"a", "b">>, 10) >>,
     total_points |-> 20, time_limit |-> 5]

QuizMixed ==
    [questions |-> << Question("q1", "multiple_choice", <<"A">>, 5),
                      Question("q2", "fill_blank", <<"a", "b">>, 5),
                      Question("q3", "short_answer", <<"a", " ", "b">>, 10) >>,
     total_points |-> 20, time_limit |-> 10]

Quizzes == {QuizChoice, QuizMixed}

\* the model's reply to the rubric prompt of one short_answer question:
\* a reply whose score line holds the digits of n, a reply without a usable
\* score line, or an exception of model.invoke
ParsedScores == {0, 2}
Replies == {[kind |-> "parsed", n |-> n] : n \in ParsedScores}

\* the answers mappings of the requests
AllRight == [q1 |-> <<"a">>, q2 |-> <<" ", "A", "b", " ">>, q3 |-> <<"B">>]
AllWrong == [q1 |-> <<"B">>, q2 |-> <<"B">>, q3 |-> <<"B">>]
AnswerMaps == {AllRight, AllWrong}

UserQuestions == {"how"}

\* ------------------------------------------------------------ the nodes
\* Each node maps the state to a partial update: a function from the changed
\* keys to their new values.  now is datetime.now().

ErrorUpdate(node, step, now) ==
    [error |-> Some(node), error_node |-> Some(node), current_step |-> step,
     updated_at |-> now]

\* planner_node reads state['user_question'] before its try block
planner_raises(state) == "user_question" \notin DOMAIN state

planner_node(state, now, plan) ==
    IF IsNone(plan)
    THEN ErrorUpdate("planner", "planner_error", now)
    ELSE [learning_plan |-> Some(Val(plan)), messages |-> 1,
          current_step |-> "planner", updated_at |-> now]

RetrievedDoc(doc, tenths) ==
    [content |-> doc.page_content, metadata |-> doc.metadata, relevance_score |-> tenths]

Contents(retrieved) == {retrieved[i].content : i \in 1..Len(retrieved)}

\* the inner loop of the supplementary retrieval: skip known contents
RECURSIVE AddDocs(_, _)
AddDocs(retrieved, docs) ==
    IF docs = <<>> THEN retrieved
    ELSE AddDocs(
            IF Head(docs).page_content \in Contents(retrieved)
            THEN retrieved
            ELSE Append(retrieved, RetrievedDoc(Head(docs), ExtraScoreTenths)),
            Tail(docs))

\* the outer loop: one query per key point, stopped by the first exception
RECURSIVE Supplement(_, _, _, _)
Supplement(retrieved, points, r, i) ==
    IF i > Len(points) \/ r.extra_fail = i THEN retrieved
    ELSE Supplement(AddDocs(retrieved, Take(r.extra, PointsPerKeyPoint)), points, r, i + 1)

\* a failed retrieval reported like the failure of any other node
retrieval_error(now) == ErrorUpdate("retrieval", "retrieval_error", now)

\* the outer except branch: no documents, and no error
retrieval_fallback(now) ==
    [retrieved_docs |-> Some(<<>>), messages |-> 1,
     current_step |-> "retrieval", updated_at |-> now]

retrieval_node(state, now, r) ==
    LET plan == Get(state, "learning_plan", None)
        failed == retrieval_fallback(now)
    IN  IF IsNone(plan) \/ r.index = "error" THEN failed
        ELSE LET docs == IF r.index = "missing" THEN <<>> ELSE r.main
                 primary == Sequence([i \in 1..Len(docs) |->
                                RetrievedDoc(docs[i], TopScoreTenths - (i - 1))])
                 key_points == Val(plan).key_points
                 all == IF Len(primary) < FewDocs /\ key_points # <<>> /\ docs # <<>>
                        THEN Supplement(primary, Take(key_points, KeyPointQueries), r, 1)
                        ELSE primary
             IN  [retrieved_docs |-> Some(all), messages |-> 1,
                  current_step |-> "retrieval", updated_at |-> now]

quiz_generator_node(state, now, quiz) ==
    IF IsNone(Get(state, "learning_plan", None)) \/ IsNone(quiz)
    THEN ErrorUpdate("quiz_generator", "quiz_error", now)
    ELSE [quiz |-> Some(Val(quiz)), messages |-> 1,
          current_step |-> "quiz_generated", updated_at |-> now]

\* a human_review that stamps the session anew
human_review_node_stamps(state, now) ==
    [current_step |-> "waiting_for_answers", updated_at |-> now, created_at |-> now]

human_review_node(state, now) ==
    [current_step |-> "waiting_for_answers", updated_at |-> now]


\* ------------------------------------------------------------- grading
\* int((total_earned / total_points) * 100) is computed in double precision:
\* the quotient is rounded before it is multiplied, and the product of some
\* exact quotients falls just below the integer it should be. For total up to
\* 20 and earned up to 22 the truncated product is the exact quotient; for
\* total = 100 and earned up to 100 it falls one short at 29, 57 and 58.
FloatShortfall(earned, total) ==
    IF total = 100 /\ earned \in {29, 57, 58} THEN 1 ELSE 0

Percent(earned, total) == (earned * 100) \div total - FloatShortfall(earned, total)

\* the keyword fallback of a short_answer question whose reply does not parse
KeywordPoints(correct_answer, user_answer, points_possible) ==
    LET keywords == Take(Split(Lower(correct_answer)), MaxKeywords)
        matched == Cardinality({i \in 1..Len(keywords) :
                                    Contains(Lower(user_answer), keywords[i])})
    IN  (matched * points_possible) \div Len(keywords)

\* one iteration of the loop over the questions: the ScoreDetail of question,
\* with raised = TRUE when the iteration raises (an exception of the model, or
\* the division by len(keywords) = 0)
GradeQuestion(question, user_answers, replies) ==
    LET reply == replies[question.id]
        correct_answer == question.answer
        points_possible == question.points
        user_answer == Strip(Get(user_answers, question.id, <<>>))
        detail(is_correct, points_earned) ==
            [raised |-> FALSE, question_id |-> question.id, user_answer |-> user_answer,
             correct_answer |-> correct_answer, is_correct |-> is_correct,
             points_earned |-> points_earned, points_possible |-> points_possible]
        raise == [raised |-> TRUE, question_id |-> question.id, user_answer |-> user_answer,
                  correct_answer |-> correct_answer, is_correct |-> FALSE,
                  points_earned |-> 0, points_possible |-> points_possible]
    IN  CASE question.type = "multiple_choice" ->
                LET is_correct == Upper(user_answer) = Upper(correct_answer)
                IN  detail(is_correct, IF is_correct THEN points_possible ELSE 0)
          [] question.type = "fill_blank" ->
                LET is_correct == Lower(user_answer) = Lower(correct_answer)
                IN  detail(is_correct, IF is_correct THEN points_possible ELSE 0)
          [] question.type = "short_answer" ->
                IF reply.kind = "error" THEN raise
                ELSE IF reply.kind = "parsed"
                THEN LET points_earned == Min(Max(reply.n, 0), points_possible)
                     IN  detail(10 * points_earned >= 6 * points_possible, points_earned)
                ELSE IF Split(Lower(correct_answer)) = <<>> THEN raise
                ELSE LET points_earned ==
                             KeywordPoints(correct_answer, user_answer, points_possible)
                     IN  detail(10 * points_earned >= 6 * points_possible, points_earned)
          [] OTHER -> detail(FALSE, 0)

\* every entry counted as correct
CorrectCount_all(details) == Len(details)

RECURSIVE SumPoints(_)
SumPoints(details) ==
    IF details = <<>> THEN 0 ELSE Head(details).points_earned + SumPoints(Tail(details))

CorrectCount(details) == Cardinality({i \in 1..Len(details) : details[i].is_correct})

\* llm.available: get_chat_model() returns a model; llm.replies: its reply to
\* the rubric prompt of each short_answer question
grading_node(state, now, llm) ==
    LET quiz == Get(state, "quiz", None)
        user_answers == Get(state, "user_answers", None)
        failed == ErrorUpdate("grading", "grading_error", now)
    IN  IF IsNone(quiz) \/ IsNone(user_answers) \/ Val(user_answers) = <<>>
        THEN failed
        ELSE IF ~llm.available THEN failed
        ELSE LET questions == Val(quiz).questions
                 total_points == Val(quiz).total_points
                 score_details == Sequence([i \in 1..Len(questions) |->
                     GradeQuestion(questions[i], Val(user_answers), llm.replies)])
                 total_earned == SumPoints(score_details)
             IN  IF \E i \in 1..Len(questions) : score_details[i].raised
                 THEN failed
                 ELSE [score |-> Some(IF total_points > 0
                                      THEN Percent(total_earned, total_points) ELSE 0),
                       score_details |-> Some(
                           [correct_count |-> CorrectCount(score_details),
                            total_count |-> Len(questions),
                            question_scores |-> score_details]),
                       messages |-> 1,
                       current_step |-> "grading", updated_at |-> now]

\* ------------------------------------------------------------ feedback
\* text: the model's feedback text, None when get_chat_model or invoke raises
\* the retry counter left as it was
retry_count_kept(should_retry, retry_count) == retry_count

\* the retry counter incremented by every feedback
retry_count_always(should_retry, retry_count) == retry_count + 1

new_retry_count(should_retry, retry_count) ==
    IF should_retry THEN retry_count + 1 ELSE retry_count

feedback_node(state, now, text) ==
    LET score == Get(state, "score", Some(0))
        score_details == Get(state, "score_details", Some(<<>>))
        learning_plan == Get(state, "learning_plan", Some(<<>>))
        retry_count == Get(state, "retry_count", 0)
    IN  IF IsNone(text) \/ IsNone(score_details) \/ IsNone(learning_plan) \/ IsNone(score)
        THEN ErrorUpdate("feedback", "feedback_error", now)
        ELSE LET should_retry == Val(score) < PassScore /\ retry_count < MaxRetries
             IN  [feedback |-> Some(Val(text)), should_retry |-> should_retry,
                  retry_count |-> new_retry_count(should_retry, retry_count),
                  messages |-> 1,
                  current_step |-> "feedback", updated_at |-> now]

\* ------------------------------------------------------------- routing
\* routing on should_retry alone
should_continue_unbounded(state) ==
    IF Get(state, "should_retry", FALSE) THEN "retry" ELSE "end"

\* routing with the bound tested one too late
should_continue_late(state) ==
    IF Get(state, "should_retry", FALSE) /\ Get(state, "retry_count", 0) <= MaxRetries
    THEN "retry" ELSE "end"

should_continue(state) ==
    IF Get(state, "should_retry", FALSE) /\ Get(state, "retry_count", 0) < MaxRetries
    THEN "retry" ELSE "end"


\* -------------------------------------------------------------- engine
\* The compiled graph with its MemorySaver.  A thread of the checkpointer is
\*   values     the channel values of its latest checkpoint
\*   next       the nodes to run next (<<>>: none)
\*   last_node  the node that wrote last ("__start__" when none has run)
\*   log        one entry per checkpoint, oldest first, holding what
\*              get_workflow_history reads of it
\* A run is a thread together with the clock, the nodes executed so far, the
\* quiz the model generated in it and the exception that ended it.

EmptyThread == [values |-> <<>>, next |-> <<>>, last_node |-> "__start__", log |-> <<>>]

\* the per-field merge of StudyFlowState: messages has the add_messages
\* reducer (here: the number of messages), every other field is replaced
Merge(state, update) ==
    ("messages" :> (Get(state, "messages", 0) + Get(update, "messages", 0)))
        @@ update @@ state

\* the checkpointer saves the run's values as a new checkpoint
Commit(run) ==
    [run EXCEPT
        !.log = Append(@, [checkpoint_id |-> run.clock,
                           step |-> Get(run.values, "current_step", "none"),
                           timestamp |-> Get(run.values, "updated_at", 0)]),
        !.clock = @ + 1]

\* the edges with human_review leading to END
Successors_review_ends(node, state) ==
    CASE node = "__start__" -> <<"planner">>
      [] node = "planner" -> <<"retrieval">>
      [] node = "retrieval" -> <<"quiz_generator">>
      [] node = "quiz_generator" -> <<"human_review">>
      [] node = "human_review" -> <<>>
      [] node = "grading" -> <<"feedback">>
      [] node = "feedback" ->
            IF should_continue(state) = "retry" THEN <<"quiz_generator">> ELSE <<>>

\* the edges with quiz_generator leading to grading, past the interrupt
Successors_no_review(node, state) ==
    CASE node = "__start__" -> <<"planner">>
      [] node = "planner" -> <<"retrieval">>
      [] node = "retrieval" -> <<"quiz_generator">>
      [] node = "quiz_generator" -> <<"grading">>
      [] node = "human_review" -> <<"grading">>
      [] node = "grading" -> <<"feedback">>
      [] node = "feedback" ->
            IF should_continue(state) = "retry" THEN <<"quiz_generator">> ELSE <<>>

\* the edges of the graph, add_edge and add_conditional_edges
Successors(node, state) ==
    CASE node = "__start__" -> <<"planner">>
      [] node = "planner" -> <<"retrieval">>
      [] node = "retrieval" -> <<"quiz_generator">>
      [] node = "quiz_generator" -> <<"human_review">>
      [] node = "human_review" -> <<"grading">>
      [] node = "grading" -> <<"feedback">>
      [] node = "feedback" ->
            IF should_continue(state) = "retry" THEN <<"quiz_generator">> ELSE <<>>

\* the update a node returns; o holds what the capabilities do in this call
NodeUpdate(node, state, now, o) ==
    CASE node = "planner" -> planner_node(state, now, o.plan)
      [] node = "retrieval" -> retrieval_node(state, now, o.retrieval)
      [] node = "quiz_generator" -> quiz_generator_node(state, now, o.quiz)
      [] node = "human_review" -> human_review_node(state, now)
      [] node = "grading" -> grading_node(state, now, o.llm)
      [] node = "feedback" -> feedback_node(state, now, o.feedback)

\* the end of a superstep: merge the node's update, follow its edges, checkpoint
Write(run, node, o, update, values) ==
    Commit([run EXCEPT
        !.values = values,
        !.next = Successors(node, values),
        !.last_node = node,
        !.generated = IF node = "quiz_generator" THEN o.quiz ELSE @,
        !.executed = Append(@, [node |-> node,
                                failed |-> "error" \in DOMAIN update])])

Merged(run, node, o, update) == Write(run, node, o, update, Merge(run.values, update))

\* one superstep: run the node, then write what it returned
Step(run, node, o) ==
    IF node = "planner" /\ planner_raises(run.values)
    THEN [run EXCEPT !.raised = "KeyError",
                     !.executed = Append(@, [node |-> node, failed |-> TRUE])]
    ELSE Merged(run, node, o, NodeUpdate(node, run.values, run.clock, o))

\* the supersteps of one invoke, up to END, an exception or the interrupt
\* before human_review; a resumed run passes the interrupt it stopped at
RECURSIVE Run(_, _, _)
Run(run, o, resuming) ==
    IF run.next = <<>> \/ run.raised # "" THEN run
    ELSE IF run.next[1] = "human_review" /\ ~resuming THEN run
    ELSE Run(Step(run, run.next[1], o), o, FALSE)

\* app.update_state(config, update): the update is written as the node that
\* wrote last, whose edges then choose the next node
update_state(run, update) ==
    LET values == Merge(run.values, update)
    IN  Commit([run EXCEPT !.values = values,
                           !.next = Successors(run.last_node, values)])


\* --------------------------------------------------------------- state
Threads == {"t1"}

VARIABLES
    study_flow_app,  \* the module-level singleton: FALSE is None
    checkpointer,    \* the MemorySaver of the compiled graph: thread_id -> thread
    clock,           \* datetime.now() and the order of the checkpoint ids
    calls,           \* the requests served so far
    ret              \* the outcome of the latest request

vars == <<study_flow_app, checkpointer, clock, calls, ret>>

\* what a request does with no capability
NoLlm == [available |-> FALSE, replies |-> <<>>]
NoRetrieval == [index |-> "error", main |-> <<>>, extra |-> <<>>, extra_fail |-> 0]

Maybe(S) == {None} \cup {Some(x) : x \in S}

\* the capabilities' behaviour during one start request: without a plan the
\* other capabilities are not reached
StartOutcomes ==
    [plan : {None}, retrieval : {NoRetrieval}, quiz : {None}, llm : {NoLlm},
     feedback : {None}]
    \cup [plan : {Some(p) : p \in Plans}, retrieval : RetrievalOutcomes,
          quiz : Maybe(Quizzes), llm : {NoLlm}, feedback : {None}]

ShortAnswerIds(state) ==
    LET quiz == Get(state, "quiz", None)
    IN  IF IsNone(quiz) THEN {}
        ELSE {Val(quiz).questions[i].id : i \in
                {j \in 1..Len(Val(quiz).questions) :
                    Val(quiz).questions[j].type = "short_answer"}}

\* the capabilities' behaviour during one submit request on a thread in state
SubmitOutcomes(state) ==
    [plan : {None}, retrieval : {NoRetrieval}, quiz : Maybe(Quizzes),
     llm : {NoLlm} \cup [available : {TRUE},
                          replies : [ShortAnswerIds(state) -> Replies]],
     feedback : Maybe({"advice"})]

\* the engine is dropped again after every call
get_study_flow_app_forgets == study_flow_app' = FALSE

\* get_study_flow_app() is called by every operation
get_study_flow_app == study_flow_app' = TRUE

\* one thread of the checkpointer for every request
config_shared(thread_id) == "t1"

\* config = {"configurable": {"thread_id": thread_id}}: the thread of the
\* checkpointer that a request reads and writes
config(thread_id) == thread_id

NewRun(thread) ==
    [values |-> thread.values, next |-> thread.next, last_node |-> thread.last_node,
     log |-> thread.log, clock |-> clock, executed |-> <<>>, generated |-> None,
     raised |-> ""]

ThreadOf(run) ==
    [values |-> run.values, next |-> run.next, last_node |-> run.last_node,
     log |-> run.log]

initial_state(user_question, thread_id, now) ==
    [messages |-> 0, user_question |-> user_question, learning_plan |-> None,
     retrieved_docs |-> None, quiz |-> None, user_answers |-> None, score |-> None,
     score_details |-> None, feedback |-> None, retry_count |-> 0,
     should_retry |-> FALSE, current_step |-> "start", thread_id |-> thread_id,
     created_at |-> now, updated_at |-> now, error |-> None, error_node |-> None]

\* a start that drops the checkpoints the thread had
start_study_flow_fresh(user_question, thread_id, o) ==
    LET run == NewRun(EmptyThread)
        input == Commit([run EXCEPT !.next = <<"__start__">>])
        started == Commit([input EXCEPT
                        !.values = Merge(@, initial_state(user_question, thread_id,
                                                          input.clock)),
                        !.next = Successors("__start__", input.values),
                        !.last_node = "__start__"])
    IN  Run(started, o, FALSE)

\* app.invoke(initial_state, config): a checkpoint of the input, the write of
\* the input by __start__, then the supersteps up to the interrupt
start_study_flow(user_question, thread_id, o) ==
    LET run == NewRun(checkpointer[config(thread_id)])
        input == Commit([run EXCEPT !.next = <<"__start__">>])
        started == Commit([input EXCEPT
                        !.values = Merge(@, initial_state(user_question, thread_id,
                                                          input.clock)),
                        !.next = Successors("__start__", input.values),
                        !.last_node = "__start__"])
    IN  Run(started, o, FALSE)

\* get_state, update_state with the answers, then app.invoke(None, config)
submit_answers(thread_id, user_answers, o) ==
    LET run == NewRun(checkpointer[config(thread_id)])
        updated == update_state(run, [user_answers |-> Some(user_answers),
                                      updated_at |-> run.clock])
    IN  Run(updated, o, TRUE)


\* ------------------------------------------------------------ handlers
\* The response of a request: http 200 with a status, or http 500 when the
\* flow raised (raised names the exception), the result carries an error, or
\* the handler itself raised; with it, what the request did (the nodes run, the
\* quiz generated) and what get_state showed of the thread before it.
Response(op, thread_id, run, http, status) ==
    [op |-> op, thread_id |-> thread_id, http |-> http, status |-> status,
     raised |-> run.raised, result |-> run.values, executed |-> run.executed,
     generated |-> run.generated,
     before |-> LET thread == checkpointer[thread_id]
                IN  [known |-> thread.log # <<>>, next |-> thread.next,
                     checkpoints |-> Len(thread.log),
                     error |-> ~IsNone(Get(thread.values, "error", None)),
                     retry_count |-> Get(thread.values, "retry_count", 0)]]

NoResponse ==
    [op |-> "none", thread_id |-> "", http |-> 0, status |-> "", raised |-> "",
     result |-> <<>>, executed |-> <<>>, generated |-> None,
     before |-> [known |-> FALSE, next |-> <<>>, checkpoints |-> 0, error |-> FALSE,
                 retry_count |-> 0]]

\* result.get("error") is truthy
HasError(result) == ~IsNone(Get(result, "error", None))

\* the status of a submit response, "TypeError" when score >= 60 raises
\* a pass only above the pass score
submit_status_strict(result) ==
    IF Get(result, "should_retry", FALSE) THEN "retry"
    ELSE LET score == Get(result, "score", Some(0))
         IN  IF IsNone(score) THEN "TypeError"
             ELSE IF Val(score) > PassScore THEN "completed" ELSE "failed"

submit_status(result) ==
    IF Get(result, "should_retry", FALSE) THEN "retry"
    ELSE LET score == Get(result, "score", Some(0))
         IN  IF IsNone(score) THEN "TypeError"
             ELSE IF Val(score) >= PassScore THEN "completed" ELSE "failed"

\* POST /workflow/start
start_response(thread_id, run) ==
    LET ok == run.raised = "" /\ ~HasError(run.values)
    IN  /\ calls' = calls + 1
        /\ get_study_flow_app
        /\ checkpointer' = [checkpointer EXCEPT ![config(thread_id)] = ThreadOf(run)]
        /\ clock' = run.clock
        /\ ret' = Response("start", thread_id, run,
                           IF ok THEN 200 ELSE 500,
                           IF ok THEN "waiting_for_answers" ELSE "error")

start_workflow(thread_id, user_question, o) ==
    start_response(thread_id, start_study_flow(user_question, thread_id, o))

\* POST /workflow/submit-answers
submit_response(thread_id, run) ==
    LET status == submit_status(run.values)
        ok == run.raised = "" /\ ~HasError(run.values) /\ status # "TypeError"
    IN  /\ calls' = calls + 1
        /\ get_study_flow_app
        /\ checkpointer' = [checkpointer EXCEPT ![config(thread_id)] = ThreadOf(run)]
        /\ clock' = run.clock
        /\ ret' = Response("submit", thread_id, run,
                           IF ok THEN 200 ELSE 500,
                           IF ok THEN status ELSE "error")

submit_user_answers(thread_id, answers, o) ==
    submit_response(thread_id, submit_answers(thread_id, answers, o))

Init ==
    /\ study_flow_app = FALSE
    /\ checkpointer = [t \in Threads |-> EmptyThread]
    /\ clock = 1
    /\ calls = 0
    /\ ret = NoResponse

Start ==
    \E t \in Threads, q \in UserQuestions, o \in StartOutcomes :
        calls < MaxCalls /\ start_workflow(t, q, o)

Submit ==
    \E t \in Threads, answers \in AnswerMaps :
        \E o \in SubmitOutcomes(checkpointer[t].values) :
            calls < MaxCalls /\ submit_user_answers(t, answers, o)

Next == Start \/ Submit

Spec == Init /\ [][Next]_vars


\* ------------------------------------------------- one quiz cycle
\* One start followed by one submit, with the quiz generator free to return
\* any points and any total_points (QuizSchema constrains neither), the
\* retriever free to fail at any of its calls, and the grading model free to
\* answer a rubric prompt with a reply that does not parse.
CycleQuestions(id) ==
    {Question(id, "multiple_choice", <<"A">>, p) : p \in 1..MaxPoints}
    \cup {Question(id, "fill_blank", <<"a", "b">>, p) : p \in 1..MaxPoints}
    \cup {Question(id, "short_answer", key, p) :
            key \in {<<"a", " ", "b">>, <<>>}, p \in 1..MaxPoints}

\* a quiz whose single question is worth 29 of 100 points
QuizHundred ==
    [questions |-> <<Question("q1", "multiple_choice", <<"A">>, 29)>>,
     total_points |-> 100, time_limit |-> 5]

CycleQuizzes ==
    {[questions |-> qs, total_points |-> t, time_limit |-> 5] :
        qs \in {<<a>> : a \in CycleQuestions("q1")}
               \cup {<<a, b>> : a \in CycleQuestions("q1"), b \in CycleQuestions("q2")},
        t \in 0..MaxTotal}
    \cup {QuizHundred}

CycleRetrievals ==
    [index : {"ok", "missing", "error"}, main : {<<>>, <<Doc("d1")>>},
     extra : {<<Doc("d1"), Doc("d2"), Doc("d3")>>}, extra_fail : {0, 1}]

OkRetrieval == [index |-> "ok", main |-> <<Doc("d1")>>,
                extra |-> <<Doc("d1"), Doc("d2"), Doc("d3")>>, extra_fail |-> 0]

CycleStartOutcomes ==
    [plan : {Some(p) : p \in Plans}, retrieval : {OkRetrieval},
     quiz : {Some(q) : q \in CycleQuizzes}, llm : {NoLlm}, feedback : {None}]
    \cup [plan : {Some(p) : p \in Plans}, retrieval : CycleRetrievals,
          quiz : Maybe({QuizChoice}), llm : {NoLlm}, feedback : {None}]

CycleReplies == Replies \cup {[kind |-> "unparseable", n |-> 0]}

\* the answers that repeat the answer key of the quiz in state
KeyAnswers(state) ==
    LET quiz == Get(state, "quiz", None)
        questions == IF IsNone(quiz) THEN <<>> ELSE Val(quiz).questions
        key(id) == LET i == CHOOSE j \in 1..Len(questions) : questions[j].id = id
                   IN  questions[i].answer
    IN  IF Len(questions) = 1 THEN [q1 |-> key("q1")]
        ELSE IF Len(questions) = 2 THEN [q1 |-> key("q1"), q2 |-> key("q2")]
        ELSE AllWrong

CycleSubmitOutcomes(state) ==
    [plan : {None}, retrieval : {NoRetrieval}, quiz : {Some(QuizChoice)},
     llm : [available : {TRUE}, replies : [ShortAnswerIds(state) -> CycleReplies]],
     feedback : {Some("advice")}]

CycleStart ==
    \E t \in Threads, q \in UserQuestions, o \in CycleStartOutcomes :
        calls = 0 /\ start_workflow(t, q, o)

CycleSubmit ==
    \E t \in Threads :
        \E answers \in {KeyAnswers(checkpointer[t].values), AllWrong},
           o \in CycleSubmitOutcomes(checkpointer[t].values) :
                calls = 1 /\ submit_user_answers(t, answers, o)

CycleNext == CycleStart \/ CycleSubmit

CycleSpec == Init /\ [][CycleNext]_vars


\* ------------------------------------------------ reads and restart
\* The other requests of the service, and the end of its process.

\* the checkpoints of a graph made anew
EmptyStore == [t \in DOMAIN checkpointer |-> EmptyThread]

\* a graph compiled, with a new MemorySaver, for every request
FreshStore == EmptyStore

\* the checkpoints behind the app get_study_flow_app() returns: those of the
\* singleton, which is created with an empty MemorySaver when there is none
AppStore == IF study_flow_app THEN checkpointer ELSE EmptyStore

\* no state found for the thread
get_workflow_state_none(thread_id) == <<>>

\* app.get_state(config).values: the values of the latest checkpoint, the
\* empty dict when the thread has none
get_workflow_state(thread_id) == AppStore[config(thread_id)].values

RECURSIVE Reverse(_)
Reverse(s) == IF s = <<>> THEN <<>> ELSE Append(Reverse(Tail(s)), Head(s))

\* the checkpoints oldest first or newest first, by the parity of their number
get_workflow_history_mixed(thread_id) ==
    LET log == AppStore[config(thread_id)].log
    IN  IF Len(log) % 2 = 0 THEN log ELSE Reverse(log)

\* app.get_state_history(config) yields the checkpoints newest first
get_workflow_history(thread_id) == Reverse(AppStore[config(thread_id)].log)

\* the response of a read: result is the state, history the entries returned
ReadResponse(op, thread_id, http, result, history) ==
    [op |-> op, thread_id |-> thread_id, http |-> http, status |-> "",
     raised |-> "", result |-> result, executed |-> <<>>, generated |-> None,
     history |-> history]

\* GET /workflow/status/{thread_id}
get_status(thread_id) ==
    LET state == get_workflow_state(thread_id)
    IN  /\ calls' = calls + 1
        /\ checkpointer' = AppStore
        /\ get_study_flow_app
        /\ ret' = ReadResponse("status", thread_id,
                               IF state = <<>> THEN 404 ELSE 200, state, <<>>)
        /\ UNCHANGED clock

\* GET /workflow/history/{thread_id}
get_history(thread_id) ==
    /\ calls' = calls + 1
    /\ checkpointer' = AppStore
    /\ get_study_flow_app
    /\ ret' = ReadResponse("history", thread_id, 200, <<>>,
                           get_workflow_history(thread_id))
    /\ UNCHANGED clock

\* The process ends and a new one imports the module: study_flow_app is None
\* again and the MemorySaver of the old process is gone with its memory. ret
\* remembers the threads the old process held.
Restart ==
    /\ study_flow_app
    /\ study_flow_app' = FALSE
    /\ checkpointer' = EmptyStore
    /\ ret' = [op |-> "restart", thread_id |-> "", http |-> 0, status |-> "",
               raised |-> "", result |-> <<>>, executed |-> <<>>, generated |-> None,
               lost |-> checkpointer]
    /\ UNCHANGED <<clock, calls>>

ServiceStart ==
    \E t \in Threads, q \in UserQuestions, o \in StartOutcomes :
        calls < MaxRequests /\ start_workflow(t, q, o)

ServiceSubmit ==
    \E t \in Threads, answers \in AnswerMaps :
        \E o \in SubmitOutcomes(checkpointer[t].values) :
            calls < MaxRequests /\ submit_user_answers(t, answers, o)

GetStatus == \E t \in Threads : calls < MaxRequests /\ get_status(t)

GetHistory == \E t \in Threads : calls < MaxRequests /\ get_history(t)

ServiceNext == ServiceStart \/ ServiceSubmit \/ GetStatus \/ GetHistory \/ Restart

ServiceSpec == Init /\ [][ServiceNext]_vars


\* ------------------------------------------------------ two sessions
\* Requests on two thread ids in any order. The handlers are coroutines that
\* never await, so the event loop serves one request at a time.
Sessions == {"t1", "t2"}

PairInit ==
    /\ study_flow_app = FALSE
    /\ checkpointer = [t \in Sessions |-> EmptyThread]
    /\ clock = 1
    /\ calls = 0
    /\ ret = NoResponse

PairStartOutcomes ==
    [plan : {Some(p) : p \in Plans}, retrieval : {OkRetrieval},
     quiz : {Some(QuizChoice)}, llm : {NoLlm}, feedback : {None}]

PairSubmitOutcomes ==
    [plan : {None}, retrieval : {NoRetrieval}, quiz : {Some(QuizChoice)},
     llm : {[available |-> TRUE, replies |-> <<>>]}, feedback : {Some("advice")}]

PairStart ==
    \E t \in Sessions, q \in UserQuestions, o \in PairStartOutcomes :
        calls < MaxPairCalls /\ start_workflow(t, q, o)

PairSubmit ==
    \E t \in Sessions, answers \in AnswerMaps, o \in PairSubmitOutcomes :
        calls < MaxPairCalls /\ submit_user_answers(t, answers, o)

PairStatus == \E t \in Sessions : calls < MaxPairCalls /\ get_status(t)

PairHistory == \E t \in Sessions : calls < MaxPairCalls /\ get_history(t)

PairNext == PairStart \/ PairSubmit \/ PairStatus \/ PairHistory

PairSpec == PairInit /\ [][PairNext]_vars


\* ------------------------------------------------------ retry cycles
\* One start that succeeds, then submits on that session through as many quiz
\* cycles as the bound allows. In each cycle get_chat_model may raise in
\* grading_node, or the model may raise in feedback_node or in a later
\* quiz_generator_node.
RetrySubmitOutcomes ==
    [plan : {None}, retrieval : {NoRetrieval}, quiz : Maybe({QuizChoice}),
     llm : {[available |-> TRUE, replies |-> <<>>]}, feedback : Maybe({"advice"})]
    \cup [plan : {None}, retrieval : {NoRetrieval}, quiz : Maybe({QuizChoice}),
          llm : {NoLlm}, feedback : {Some("advice")}]

RetryStart ==
    \E t \in Threads, q \in UserQuestions, o \in PairStartOutcomes :
        calls = 0 /\ start_workflow(t, q, o)

RetrySubmit ==
    \E t \in Threads, answers \in AnswerMaps, o \in RetrySubmitOutcomes :
        calls > 0 /\ calls < MaxRetryCalls /\ submit_user_answers(t, answers, o)

RetryNext == RetryStart \/ RetrySubmit

RetrySpec == Init /\ [][RetryNext]_vars


\* ------------------------------------------------------ grading alone
\* grading_node and the body of its loop applied to every input of a bounded
\* set: answer keys with and without surrounding spaces, keys of no, one, two
\* and six words, answers mappings that miss the question, and replies of the
\* grading model given as the lines the parser looks at.

DigitChars == {"0", "1", "2"}
DigitValue(c) == CASE c = "0" -> 0 [] c = "1" -> 1 [] c = "2" -> 2

\* ''.join(filter(str.isdigit, score_line))
RECURSIVE Digits(_)
Digits(line) ==
    IF line = <<>> THEN <<>>
    ELSE IF Head(line) \in DigitChars THEN <<Head(line)>> \o Digits(Tail(line))
    ELSE Digits(Tail(line))

\* int(digits) of a non-empty string of digits
RECURSIVE Number(_)
Number(digits) ==
    IF digits = <<>> THEN 0
    ELSE 10 * Number(SubSeq(digits, 1, Len(digits) - 1)) + DigitValue(digits[Len(digits)])

\* every reply read as one that does not parse
ParseReply_unparsed(response) == [kind |-> "unparseable", n |-> 0]

\* the try block that reads the reply: score_line is the first line holding
\* "score", None when there is none ([0] raises IndexError); a line without a
\* digit makes int('') raise ValueError; comment tells whether a line holding
\* "feedback" exists and has a ':' to split at ([1] raises IndexError when it
\* has none). Any of the three sends the question to the keyword fallback.
ParseReply(response) ==
    IF response.raises THEN [kind |-> "error", n |-> 0]
    ELSE IF IsNone(response.score_line) THEN [kind |-> "unparseable", n |-> 0]
    ELSE IF Digits(Val(response.score_line)) = <<>> THEN [kind |-> "unparseable", n |-> 0]
    ELSE IF response.comment = "no colon" THEN [kind |-> "unparseable", n |-> 0]
    ELSE [kind |-> "parsed", n |-> Number(Digits(Val(response.score_line)))]

\* the replies of the grading model: model.invoke raises, or returns a text
ScoreLines == {<<"0">>, <<"1">>, <<"2">>, <<"-", "1">>, <<"2", "/", "2">>, <<"x">>}
Responses ==
    [raises : {FALSE}, score_line : Maybe(ScoreLines), comment : {"colon", "no colon", "none"}]
    \cup {[raises |-> TRUE, score_line |-> None, comment |-> "none"]}

SixWords == <<"a", " ", "b", " ", "a", " ", "b", " ", "a", " ", "c">>

GradeQuestions ==
    {Question("q1", type, key, p) :
        type \in {"multiple_choice", "fill_blank"},
        key \in {<<"A">>, <<"a", "b">>, <<"A", " ">>, <<" ", "a", "b">>},
        p \in 0..MaxPoints}
    \cup {Question("q1", "short_answer", key, p) :
            key \in {<<>>, <<"a">>, <<"a", " ", "b">>, SixWords}, p \in 0..MaxPoints}
    \cup {Question("q1", "essay", <<"a">>, p) : p \in 0..MaxPoints}

GradeAnswers ==
    {<<>>, <<"a">>, <<" ", "A", " ">>, <<"a", "b">>, <<"A", "B", " ">>,
     <<"b", " ", "a">>, <<"c">>}

\* the answers mappings: an answer to q1, or to another question only
GradeAnswerMaps == {[q1 |-> a] : a \in GradeAnswers} \cup {[q2 |-> <<"a">>]}

\* the loop body run on one question
grade_question(question, user_answers, response) ==
    /\ ret' = [op |-> "grade_question", thread_id |-> "", http |-> 0, status |-> "",
               raised |-> "", result |-> <<>>, executed |-> <<>>, generated |-> None,
               question |-> question, user_answers |-> user_answers,
               response |-> response,
               detail |-> GradeQuestion(question, user_answers,
                                        [q1 |-> ParseReply(response)])]
    /\ calls' = calls + 1
    /\ UNCHANGED <<study_flow_app, checkpointer, clock>>

\* the quizzes and answers mappings grading_node is run on; the state holds
\* the score and score_details of an earlier cycle
GradeQuizzes ==
    {[questions |-> qs, total_points |-> t, time_limit |-> 5] :
        qs \in {Take(QuizMixed.questions, n) : n \in 0..Len(QuizMixed.questions)}
               \cup {<<a>> : a \in CycleQuestions("q1")}
               \cup {<<Question("q1", "fill_blank", <<"a">>, 1), b>> :
                        b \in CycleQuestions("q2")},
        t \in 0..MaxTotal}
    \cup {QuizMixed}

GradeStates ==
    [quiz : Maybe(GradeQuizzes),
     user_answers : Maybe({AllRight, AllWrong, [q2 |-> <<"a", "b">>], <<>>}),
     score : {Some(50)}, score_details : {None}, current_step : {"human_review"}]

GradeLlms(state) ==
    {NoLlm} \cup [available : {TRUE},
                  replies : [ShortAnswerIds(state) ->
                                CycleReplies \cup {[kind |-> "error", n |-> 0]}]]

\* grading_node run on one state
grade(state, llm) ==
    /\ ret' = [op |-> "grading", thread_id |-> "", http |-> 0, status |-> "",
               raised |-> "", result |-> <<>>,
               executed |-> <<>>, generated |-> None,
               state |-> state, llm |-> llm,
               update |-> grading_node(state, clock, llm)]
    /\ calls' = calls + 1
    /\ UNCHANGED <<study_flow_app, checkpointer, clock>>

GradeOne ==
    \E question \in GradeQuestions, user_answers \in GradeAnswerMaps,
       response \in Responses :
        calls = 0 /\ grade_question(question, user_answers, response)

GradeAll ==
    \E state \in GradeStates : \E llm \in GradeLlms(state) :
        calls = 0 /\ grade(state, llm)

GradeNext == GradeOne \/ GradeAll

GradeSpec == Init /\ [][GradeNext]_vars


\* ------------------------------------------------------------- properties
StateOf(t) == checkpointer[t].values
Suspended(t) == checkpointer[t].next = <<"human_review">>
Ran(node) == \E i \in 1..Len(ret.executed) : ret.executed[i].node = node
NodesRun == [i \in 1..Len(ret.executed) |-> ret.executed[i].node]
\* a request whose flow ran to its end and returned a result without error
Served(op) == ret.op = op /\ ret.raised = "" /\ ~HasError(ret.result)
QuestionScores == Val(ret.result["score_details"]).question_scores

\* C1: in every reachable state of every session retry_count is between 0 and
\* 3, and should_continue does not answer "retry" on a state whose retry_count
\* is 3.
C1_RetryCountBounded ==
    \A t \in DOMAIN checkpointer :
        /\ Get(StateOf(t), "retry_count", 0) \in 0..3
        /\ Get(StateOf(t), "retry_count", 0) = 3 => should_continue(StateOf(t)) # "retry"

\* the third low score: retry_count is 3 and should_retry still TRUE
C1_Witness ==
    \E t \in DOMAIN checkpointer :
        /\ Get(StateOf(t), "retry_count", 0) = 3
        /\ Get(StateOf(t), "should_retry", FALSE)

\* C2: a start request runs planner, retrieval and quiz_generator, stops before
\* human_review, and the state it returns, which is the latest checkpoint, has
\* current_step = "waiting_for_answers".
C2_StartReturnsWaiting ==
    Served("start") =>
        /\ NodesRun = <<"planner", "retrieval", "quiz_generator">>
        /\ Suspended(ret.thread_id)
        /\ ret.result = StateOf(ret.thread_id)
        /\ ret.result["current_step"] = "waiting_for_answers"

\* C3: when a node returns an error, no later node of the graph runs in that
\* request.
C3_NoNodeAfterError ==
    \A i \in 1..Len(ret.executed) : ret.executed[i].failed => i = Len(ret.executed)

\* C4: a submit request on a session whose state has error set runs neither
\* grading nor feedback and leaves the session as it was.
C4_ErrorHaltsSession ==
    (ret.op = "submit" /\ ret.before.error) =>
        /\ ~Ran("grading") /\ ~Ran("feedback")
        /\ Len(checkpointer[ret.thread_id].log) = ret.before.checkpoints

\* C5: a submit request on a thread_id that was never started fails with
\* NotFoundError, runs no node and creates no checkpoint for it.
C5_UnknownThreadRejected ==
    (ret.op = "submit" /\ ~ret.before.known) =>
        /\ ret.raised = "NotFoundError"
        /\ ret.executed = <<>>
        /\ checkpointer[ret.thread_id].log = <<>>

\* C6: a submit request on a started session that is not suspended before
\* human_review fails with InvalidStateError, runs no node and changes nothing.
C6_NotSuspendedRejected ==
    (ret.op = "submit" /\ ret.before.known /\ ret.before.next # <<"human_review">>) =>
        /\ ret.raised = "InvalidStateError"
        /\ ret.executed = <<>>
        /\ Len(checkpointer[ret.thread_id].log) = ret.before.checkpoints

\* C7: the submit that completes the third failing cycle (retry_count becomes
\* 3) leaves the session suspended on a fourth quiz, and a submit on a session
\* suspended with retry_count = 3 returns should_retry = FALSE, with status
\* "failed" when its score is below 60.
C7_FourthCycle ==
    /\ (Served("submit") /\ Ran("feedback") /\ ret.before.retry_count = 2
            /\ ret.result["retry_count"] = 3)
        => (Ran("quiz_generator") /\ Suspended(ret.thread_id))
    /\ (Served("submit") /\ Ran("feedback") /\ ret.before.retry_count = 3)
        => /\ ~ret.result["should_retry"]
           /\ Val(ret.result["score"]) < 60 => ret.status = "failed"

\* C8: a submit response with status "retry" means that quiz_generator ran in
\* that request and the session is suspended before human_review again.
C8_RetryMeansSuspended ==
    (ret.op = "submit" /\ ret.status = "retry") =>
        (Ran("quiz_generator") /\ Suspended(ret.thread_id))

\* C9: a submit request whose result has no error answers http 200 with status
\* "retry" if should_retry, else "completed" if score >= 60, else "failed".
C9_StatusDerivation ==
    Served("submit") =>
        /\ ret.http = 200
        /\ IF Get(ret.result, "should_retry", FALSE)
           THEN ret.status = "retry"
           ELSE /\ ~IsNone(Get(ret.result, "score", None))
                /\ ret.status = IF Val(ret.result["score"]) >= 60
                                THEN "completed" ELSE "failed"

\* a pass with exactly 60 points
C9_Witness ==
    /\ Served("submit")
    /\ Ran("feedback")
    /\ ret.result["score"] = Some(60)
    /\ ret.status = "completed"

\* the first submit on a session started without error, served without error
FirstSubmit ==
    /\ Served("submit")
    /\ ret.before.next = <<"human_review">>
    /\ ret.before.retry_count = 0
    /\ ~ret.before.error

RetriedOnce ==
    /\ ret.result["score"] = Some(0)
    /\ ret.result["should_retry"]
    /\ ret.result["retry_count"] = 1
    /\ Ran("quiz_generator")
    /\ ret.result["quiz"] = ret.generated
    /\ Suspended(ret.thread_id)

SubmitStep(t) == calls' = calls + 1 /\ ret'.op = "submit" /\ ret'.thread_id = t
\* thread t waits for answers to a quiz, no error recorded
Waiting(t) ==
    /\ Suspended(t)
    /\ ~HasError(StateOf(t))
    /\ ~IsNone(Get(StateOf(t), "quiz", None))
QuizOf(t) == Val(StateOf(t)["quiz"])
\* grading ran in the latest request and returned no error
Graded(r) == \E i \in 1..Len(r.executed) :
                r.executed[i].node = "grading" /\ ~r.executed[i].failed
Abs(n) == IF n < 0 THEN -n ELSE n

ChoiceOnly(quiz) ==
    \A i \in 1..Len(quiz.questions) : quiz.questions[i].type = "multiple_choice"

AnsweredRight(quiz, answers) ==
    \A i \in 1..Len(quiz.questions) :
        LET question == quiz.questions[i]
        IN  /\ question.id \in DOMAIN answers
            /\ Upper(Strip(answers[question.id])) = Upper(question.answer)

\* C11: a submit on a session waiting with a quiz of multiple_choice questions
\* only, every question answered with its answer key, yields score 100 and
\* should_retry FALSE, ends the flow and answers status "completed".
C11_AllChoiceRight ==
    [][\A t \in DOMAIN checkpointer :
        (/\ SubmitStep(t) /\ Waiting(t) /\ ChoiceOnly(QuizOf(t))
         /\ AnsweredRight(QuizOf(t), Val(ret'.result["user_answers"])))
        => /\ ret'.result["score"] = Some(100)
           /\ ~ret'.result["should_retry"]
           /\ checkpointer'[t].next = <<>>
           /\ ret'.status = "completed"]_vars

\* a call of the index or of the retriever that retrieval_node makes raises
IndexFails(r) == r.index # "ok"
QueryFails(r) == /\ r.index = "ok" /\ r.extra_fail > 0
                 /\ r.main # <<>> /\ Len(r.main) < FewDocs

\* what C12 promises of a start whose retrieval failed
DegradedStart(t) ==
    /\ ret'.result["retrieved_docs"] = Some(<<>>)
    /\ Len(ret'.executed) = 3
    /\ ret'.executed[2] = [node |-> "retrieval", failed |-> FALSE]
    /\ checkpointer'[t].log[Len(checkpointer[t].log) + 4].step = "retrieval"
    /\ ret'.executed[3].node = "quiz_generator"
    /\ checkpointer'[t].next = <<"human_review">>

\* C12 as stated: when the index is missing or any other call of the retrieval
\* fails while a plan exists, retrieval_node returns retrieved_docs = [] with
\* current_step "retrieval" and no error, quiz_generator runs and the run
\* stops before human_review.
C12_AnyRetrievalFailure ==
    [][\A t \in DOMAIN checkpointer, q \in UserQuestions, o \in CycleStartOutcomes :
        (/\ IndexFails(o.retrieval) \/ QueryFails(o.retrieval)
         /\ start_workflow(t, q, o))
        => DegradedStart(t)]_vars

\* C12 amended: the same when the index is missing or loading it or the
\* primary query raises; a key-point query that raises keeps the documents
\* found before it.
C12_IndexFailure ==
    [][\A t \in DOMAIN checkpointer, q \in UserQuestions, o \in CycleStartOutcomes :
        (IndexFails(o.retrieval) /\ start_workflow(t, q, o)) => DegradedStart(t)]_vars

C12_Witness ==
    /\ ret.op = "start"
    /\ ~IsNone(ret.result["learning_plan"])
    /\ ret.result["retrieved_docs"] = Some(<<>>)
    /\ ret.executed[2] = [node |-> "retrieval", failed |-> FALSE]
    /\ Ran("quiz_generator")
    /\ Suspended(ret.thread_id)

\* C18: whenever grading_node returns without error the score it wrote is
\* between 0 and 100.
C18_ScoreInRange ==
    (ret.op = "submit" /\ Graded(ret)) =>
        /\ Val(ret.result["score"]) >= 0
        /\ Val(ret.result["score"]) <= 100

\* C19: for a quiz with total_points > 0 the score is 100 * earned /
\* total_points rounded to a nearest integer, earned being the sum of the
\* questions' points_earned.
C19_ScoreRounded ==
    [][\A t \in DOMAIN checkpointer :
        (/\ SubmitStep(t) /\ Waiting(t) /\ Graded(ret')
         /\ QuizOf(t).total_points > 0)
        => LET total == QuizOf(t).total_points
               earned == SumPoints(Val(ret'.result["score_details"]).question_scores)
           IN  2 * Abs(Val(ret'.result["score"]) * total - 100 * earned) <= total]_vars

\* C20: a submit of a non-empty answer mapping on a session waiting with a
\* quiz of total_points = 0 is graded without error and yields score 0.
C20_ZeroTotal ==
    [][\A t \in DOMAIN checkpointer :
        (/\ SubmitStep(t) /\ Waiting(t) /\ QuizOf(t).total_points = 0
         /\ Val(ret'.result["user_answers"]) # <<>>)
        => /\ Graded(ret')
           /\ ~HasError(ret'.result)
           /\ ret'.result["score"] = Some(0)]_vars

RanIn(r, node) == \E i \in 1..Len(r.executed) : r.executed[i].node = node
\* a step that serves a read of thread t
ReadStep(op, t) == calls' = calls + 1 /\ ret'.op = op /\ ret'.thread_id = t

\* C13: when the process restarts while a session is suspended on a quiz, a
\* submit for that session after the restart finds the paused state again and
\* grades the answers against that quiz.
C13_DurableSuspension ==
    [][\A t \in DOMAIN checkpointer :
        (/\ ret.op = "restart"
         /\ ret.lost[t].next = <<"human_review">>
         /\ ~IsNone(Get(ret.lost[t].values, "quiz", None))
         /\ SubmitStep(t))
        => /\ ret'.raised = ""
           /\ RanIn(ret', "grading")
           /\ Get(ret'.result, "learning_plan", None) = ret.lost[t].values["learning_plan"]
           /\ Graded(ret') =>
                Val(ret'.result["score_details"]).total_count
                    = Len(Val(ret.lost[t].values["quiz"]).questions)]_vars

\* C14: a get-state right after a start that left the session suspended
\* returns the learning_plan, quiz, retry_count and current_step that the start
\* returned.
C14_StateAfterStart ==
    [][\A t \in DOMAIN checkpointer :
        (/\ ret.op = "start" /\ ret.thread_id = t /\ ret.raised = ""
         /\ Suspended(t)
         /\ ReadStep("status", t))
        => \A k \in {"learning_plan", "quiz", "retry_count", "current_step"} :
                /\ k \in DOMAIN ret'.result
                /\ ret'.result[k] = ret.result[k]]_vars

\* a state read back after a start that generated a quiz
C14_Witness ==
    /\ ret.op = "status"
    /\ ret.http = 200
    /\ calls = 2
    /\ Suspended(ret.thread_id)
    /\ ~IsNone(Get(ret.result, "quiz", None))
    /\ Len(checkpointer[ret.thread_id].log) = 5

\* C15: get-state and get-history change no session's state and no
\* checkpoint log, and a get-history that directly follows a get-history of
\* the same session returns the same sequence.
C15_ReadsChangeNothing ==
    [][\A t \in DOMAIN checkpointer :
        (ReadStep("status", t) \/ ReadStep("history", t))
        => /\ checkpointer' = checkpointer
           /\ (ret.op = "history" /\ ret.thread_id = t /\ ret'.op = "history")
                => ret'.history = ret.history]_vars

\* a history read after a start and one more read
C15_Witness ==
    /\ ret.op = "history"
    /\ calls = 3
    /\ Len(ret.history) = 5
    /\ Len(checkpointer[ret.thread_id].log) = 5

\* C16: get-history returns the checkpoints of the session newest first, each
\* exactly once: entry i of the result is the i-th latest checkpoint committed.
C16_HistoryNewestFirst ==
    ret.op = "history" =>
        LET log == checkpointer[ret.thread_id].log
        IN  /\ Len(ret.history) = Len(log)
            /\ \A i \in 1..Len(log) : ret.history[i] = log[Len(log) + 1 - i]
            /\ \A i, j \in 1..Len(log) :
                    i < j => ret.history[i].checkpoint_id > ret.history[j].checkpoint_id

\* a history of an even number of checkpoints, written by several requests
C16_Witness ==
    /\ ret.op = "history"
    /\ Len(ret.history) > 5
    /\ Len(ret.history) % 2 = 0

\* C17: a request on one thread id leaves the thread of every other thread id
\* as it was: its state (retry_count and quiz with it), its next node and its
\* checkpoint log.
C17_SessionIsolation ==
    [][\A t \in DOMAIN checkpointer :
        (calls' = calls + 1 /\ ret'.thread_id # t)
        => checkpointer'[t] = checkpointer[t]]_vars

\* a start on t2 served while t1 waits on its second quiz
C17_Witness ==
    /\ ret.op = "start"
    /\ ret.thread_id = "t2"
    /\ Suspended("t2")
    /\ Suspended("t1")
    /\ StateOf("t1")["retry_count"] = 1
    /\ StateOf("t2")["retry_count"] = 0

\* C21: a submit of an answers mapping on a session that a start left
\* suspended returns, without raising, a state whose current_step is not
\* "waiting_for_answers".
C21_ResumeLeavesWaiting ==
    [][\A t \in DOMAIN checkpointer :
        (Suspended(t) /\ SubmitStep(t))
        => /\ ret'.raised = ""
           /\ RanIn(ret', "human_review")
           /\ ret'.result["current_step"] # "waiting_for_answers"
           /\ checkpointer'[t].values["current_step"] # "waiting_for_answers"]_vars

\* a resume that ran human_review and ended the flow after feedback
C21_Witness ==
    /\ ret.op = "submit"
    /\ ret.before.next = <<"human_review">>
    /\ NodesRun = <<"human_review", "grading", "feedback">>
    /\ ret.result["current_step"] = "feedback"

\* the outcomes of get_chat_model and of the model that a grading can meet
GradingModels(state) ==
    {NoLlm} \cup [available : {TRUE}, replies : [ShortAnswerIds(state) -> Replies]]

ClosedOnly(quiz) ==
    \A i \in 1..Len(quiz.questions) :
        quiz.questions[i].type \in {"multiple_choice", "fill_blank"}

\* the score and the per-question results that a grading writes
Marks(update) == <<Get(update, "score", None), Get(update, "score_details", None)>>

\* C22: the grading of a quiz of multiple_choice and fill_blank questions only
\* asks nothing of the model, and writes the same score and the same
\* per-question results whatever the model capability does.
C22_GradingIgnoresModel ==
    [][\A t \in DOMAIN checkpointer :
        (SubmitStep(t) /\ Waiting(t) /\ ClosedOnly(QuizOf(t)))
        => LET state == Merge(StateOf(t), [user_answers |-> ret'.result["user_answers"]])
           IN  /\ ShortAnswerIds(state) = {}
               /\ \A a, b \in GradingModels(state) :
                    Marks(grading_node(state, clock, a)) = Marks(grading_node(state, clock, b))]_vars

\* the pairs of nodes that may run one right after the other
StepOrder ==
    { <<"planner", "retrieval">>, <<"retrieval", "quiz_generator">>,
      <<"human_review", "grading">>, <<"grading", "feedback">>,
      <<"feedback", "quiz_generator">> }

LastRun == NodesRun[Len(NodesRun)]

QuizSteps == {"quiz_generated", "quiz_error"}
FeedbackSteps == {"feedback", "feedback_error"}

\* the checkpoints that quiz_generator wrote right after one of feedback: the
\* times the run went back from the routing to quiz_generator
LoopBacks(log) ==
    Cardinality({i \in 2..Len(log) :
        log[i].step \in QuizSteps /\ log[i - 1].step \in FeedbackSteps})

\* the checkpoints that quiz_generator wrote: a checkpoint with one of its
\* steps that follows a checkpoint of another node
Generations(log) ==
    Cardinality({i \in 2..Len(log) :
        log[i].step \in QuizSteps /\ log[i - 1].step \notin QuizSteps})

LogOf(t) == checkpointer[t].log

\* C24: whatever the submits and whichever nodes fail, a session goes back
\* from the routing to quiz_generator at most 3 times, so quiz_generator runs
\* at most 4 times in it.
C24_AtMostThreeLoopBacks ==
    \A t \in DOMAIN checkpointer :
        /\ LoopBacks(LogOf(t)) <= MaxRetries
        /\ Generations(LogOf(t)) <= MaxRetries + 1

\* C25: in every reachable state retry_count is the number of times the
\* session went back from the routing to quiz_generator.
C25_RetryCountIsLoopBacks ==
    \A t \in DOMAIN checkpointer :
        Get(StateOf(t), "retry_count", 0) = LoopBacks(LogOf(t))

NodeFailed(r, node) ==
    \E i \in 1..Len(r.executed) : r.executed[i].node = node /\ r.executed[i].failed

\* C28: when grading or feedback fails in a retry cycle, the score and the
\* should_retry that an earlier cycle left in the state cause neither a
\* return to quiz_generator nor an increment of retry_count.
C28_NoRetryOnStaleScore ==
    [][\A t \in DOMAIN checkpointer :
        (/\ SubmitStep(t) /\ Suspended(t)
         /\ Get(StateOf(t), "retry_count", 0) >= 1
         /\ NodeFailed(ret', "grading") \/ NodeFailed(ret', "feedback"))
        => /\ ~RanIn(ret', "quiz_generator")
           /\ ret'.result["retry_count"] = StateOf(t)["retry_count"]]_vars

\* feedback ran in the request and returned no error
FedBack(r) == \E i \in 1..Len(r.executed) :
                r.executed[i].node = "feedback" /\ ~r.executed[i].failed

\* C26: when feedback_node returns without error on a state with score and
\* retry_count, it writes should_retry = (score < 60 and retry_count < 3), and
\* retry_count + 1 if should_retry, else retry_count as it was.
C26_FeedbackDecision ==
    [][\A t \in DOMAIN checkpointer :
        (SubmitStep(t) /\ FedBack(ret'))
        => LET score == Val(ret'.result["score"])
               retry_count == Get(StateOf(t), "retry_count", 0)
               should_retry == score < 60 /\ retry_count < 3
           IN  /\ ret'.result["should_retry"] = should_retry
               /\ ret'.result["retry_count"] =
                    IF should_retry THEN retry_count + 1 ELSE retry_count]_vars

\* a feedback on a passed quiz in a retry cycle: no retry, the counter kept
C26_Witness ==
    /\ ret.op = "submit"
    /\ FedBack(ret)
    /\ Val(ret.result["score"]) >= 60
    /\ ret.before.retry_count = 1
    /\ ret.result["retry_count"] = 1
    /\ ~ret.result["should_retry"]

\* C27: the routing after feedback depends on the state alone: the run goes
\* back to quiz_generator if and only if should_retry is true and retry_count
\* is below 3, it ends otherwise, and the routing writes nothing: the request
\* commits one checkpoint for the answers and one for each node it ran.
C27_RoutingRule ==
    [][\A t \in DOMAIN checkpointer :
        (SubmitStep(t) /\ RanIn(ret', "feedback"))
        => LET result == ret'.result
               retry == Get(result, "should_retry", FALSE)
                            /\ Get(result, "retry_count", 0) < 3
               nodes == [i \in 1..Len(ret'.executed) |-> ret'.executed[i].node]
           IN  /\ nodes = IF retry
                           THEN <<"human_review", "grading", "feedback", "quiz_generator">>
                           ELSE <<"human_review", "grading", "feedback">>
               /\ checkpointer'[t].next = IF retry THEN <<"human_review">> ELSE <<>>
               /\ Len(checkpointer'[t].log) = Len(LogOf(t)) + 1 + Len(nodes)
               /\ checkpointer'[t].values = result]_vars

\* the routing ends the flow on should_retry with retry_count = 3
C27_Witness ==
    /\ ret.op = "submit"
    /\ NodesRun = <<"human_review", "grading", "feedback">>
    /\ ret.result["should_retry"]
    /\ ret.result["retry_count"] = 3
    /\ checkpointer[ret.thread_id].next = <<>>

Absent == "absent"
Field(state, k) == Get(state, k, Absent)

\* C29: a submit changes neither thread_id, user_question nor created_at of
\* the session, nor its learning_plan, through whatever nodes it runs; and a
\* start returns the learning_plan that planner_node wrote, unchanged by
\* retrieval_node and quiz_generator_node.
C29_CreationFieldsKept ==
    [][/\ \A t \in DOMAIN checkpointer :
            SubmitStep(t) =>
                \A k \in {"thread_id", "user_question", "created_at", "learning_plan"} :
                    Field(checkpointer'[t].values, k) = Field(StateOf(t), k)
       /\ \A t \in DOMAIN checkpointer, q \in UserQuestions, o \in StartOutcomes :
            (start_workflow(t, q, o) /\ ~IsNone(o.plan))
                => ret'.result["learning_plan"] = o.plan]_vars

\* a submit that ran every node of a retry cycle on a session with a plan
C29_Witness ==
    /\ ret.op = "submit"
    /\ NodesRun = <<"human_review", "grading", "feedback", "quiz_generator">>
    /\ ret.before.retry_count = 1
    /\ ~IsNone(ret.result["learning_plan"])
    /\ ret.result["thread_id"] = ret.thread_id

GradeRun == ret.op = "grading"

\* C32: grading_node run with quiz absent or user_answers absent fails with
\* error, error_node = "grading" and current_step = "grading_error" and writes
\* neither score nor score_details; run with both present it does not fail on
\* that test (a quiz of closed questions and a chat model that can be built
\* leave it nothing else to fail on).
C32_GradePrecondition ==
    GradeRun =>
        LET absent == IsNone(ret.state.quiz) \/ IsNone(ret.state.user_answers)
        IN  /\ absent =>
                /\ "error" \in DOMAIN ret.update
                /\ ret.update["error_node"] = Some("grading")
                /\ ret.update["current_step"] = "grading_error"
                /\ "score" \notin DOMAIN ret.update
                /\ "score_details" \notin DOMAIN ret.update
            /\ (/\ ~absent
                /\ ret.llm.available
                /\ ClosedOnly(Val(ret.state.quiz)))
                => "error" \notin DOMAIN ret.update


\* the current_step a failing step is to leave: "<step name>_error"
ErrorStepOf ==
    [planner |-> "planner_error", retrieval |-> "retrieval_error",
     quiz_generator |-> "quiz_generator_error", grading |-> "grading_error",
     feedback |-> "feedback_error"]

\* C33: no step lets an exception escape to the engine; a step that fails
\* returns error, error_node = its name and current_step = "<its name>_error"
\* (read off the response when the failing step is the last one that ran);
\* and a request all of whose steps succeeded on a session without an error
\* carries no error.
C33_FailuresReported ==
    /\ ret.raised = ""
    /\ \A i \in 1..Len(ret.executed) :
        LET node == ret.executed[i].node
        IN  (ret.executed[i].failed /\ i = Len(ret.executed))
                => /\ ret.result["error_node"] = Some(node)
                   /\ ret.result["current_step"] = ErrorStepOf[node]
    /\ (/\ ret.executed # <<>>
        /\ ~ret.before.error
        /\ \A i \in 1..Len(ret.executed) : ~ret.executed[i].failed)
        => /\ ~HasError(ret.result)
           /\ IsNone(Get(ret.result, "error_node", None))


\* the loop body ran on one question
QuestionRun == ret.op = "grade_question"
\* the answer given to the question graded, the empty text when it has none
AnswerGiven == Get(ret.user_answers, ret.question.id, <<>>)

\* C34: a multiple_choice or fill_blank question is_correct exactly when the
\* user's answer and the answer key are equal after stripping both and
\* ignoring case, it earns its points when is_correct and 0 otherwise, and a
\* question with no entry in user_answers is graded as the empty answer.
C34_ClosedQuestionMatch ==
    (QuestionRun /\ ret.question.type \in {"multiple_choice", "fill_blank"}) =>
        /\ ~ret.detail.raised
        /\ ret.detail.is_correct
            <=> Lower(Strip(AnswerGiven)) = Lower(Strip(ret.question.answer))
        /\ ret.detail.points_earned
            = IF ret.detail.is_correct THEN ret.question.points ELSE 0
        /\ ret.detail.user_answer = Strip(AnswerGiven)


\* the reply to the rubric prompt goes through the parsing block without an
\* exception: it has a score line with a digit, and its comment line, if
\* any, has a colon
Parseable(response) ==
    /\ ~response.raises
    /\ ~IsNone(response.score_line)
    /\ \E i \in 1..Len(Val(response.score_line)) :
            Val(response.score_line)[i] \in DigitChars
    /\ response.comment # "no colon"

MatchedWords ==
    LET keywords == Take(Split(Lower(ret.question.answer)), MaxKeywords)
    IN  Cardinality({i \in 1..Len(keywords) :
                        Contains(Lower(Strip(AnswerGiven)), keywords[i])})

\* C36: a short_answer question whose reply does not parse earns
\* (matched / 5) * points_possible, in whole points, where matched counts the
\* first 5 words of the answer key that occur in the answer, whatever the
\* number of words of the key, and the grading does not fail.
C36_KeywordFallback ==
    (/\ QuestionRun
     /\ ret.question.type = "short_answer"
     /\ ~ret.response.raises
     /\ ~Parseable(ret.response))
    => /\ ~ret.detail.raised
       /\ ret.detail.points_earned
            = (MatchedWords * ret.question.points) \div MaxKeywords

\* C37: after a grading that succeeded score_details has one entry per
\* question of the quiz in the order of the quiz, total_count is the number
\* of questions, correct_count the number of entries with is_correct, between
\* 0 and total_count, and score is computed from the sum of the entries'
\* points_earned.
C37_ScoreDetailShape ==
    (GradeRun /\ "error" \notin DOMAIN ret.update) =>
        LET quiz == Val(ret.state.quiz)
            details == Val(ret.update["score_details"])
            entries == details.question_scores
        IN  /\ Len(entries) = Len(quiz.questions)
            /\ \A i \in 1..Len(entries) :
                /\ entries[i].question_id = quiz.questions[i].id
                /\ entries[i].points_possible = quiz.questions[i].points
            /\ details.total_count = Len(quiz.questions)
            /\ details.correct_count
                = Cardinality({i \in 1..Len(entries) : entries[i].is_correct})
            /\ 0 <= details.correct_count
            /\ details.correct_count <= details.total_count
            /\ ret.update["score"]
                = Some(IF quiz.total_points > 0
                       THEN Percent(SumPoints(entries), quiz.total_points) ELSE 0)

\* three questions graded, two of them correct
C37_Witness ==
    /\ GradeRun
    /\ "error" \notin DOMAIN ret.update
    /\ Val(ret.update["score_details"]).total_count = 3
    /\ Val(ret.update["score_details"]).correct_count = 2
    /\ Len(Val(ret.update["score_details"]).question_scores) = 3


\* the primary query of r returns fewer than 3 documents and no call raises
FewPrimary(r) == r.index = "ok" /\ Len(r.main) < FewDocs /\ r.extra_fail = 0

\* what C38 promises of the documents retrieved from r
Supplemented(docs, r) ==
    LET n == Len(r.main)
    IN  /\ Len(docs) >= n
        /\ \A i \in 1..n : docs[i].content = r.main[i].page_content
        /\ \A i \in 1..Min(Len(r.extra), PointsPerKeyPoint) :
                r.extra[i].page_content \in Contents(docs)
        /\ Len(docs) - n <= KeyPointQueries * PointsPerKeyPoint
        /\ Cardinality(Contents(docs)) = Len(docs)
        /\ \A i \in 1..n, j \in (n + 1)..Len(docs) :
                docs[j].relevance_score < docs[i].relevance_score

\* C38: when the primary query returns fewer than 3 documents, none included,
\* and the plan has key points, retrieval_node queries the first 2 key points,
\* takes at most 2 documents of each, adds none whose content it already has,
\* and scores every added document below every primary one.
C38_SupplementaryQueries ==
    [][\A t \in DOMAIN checkpointer, q \in UserQuestions, o \in CycleStartOutcomes :
        (/\ FewPrimary(o.retrieval)
         /\ ~IsNone(o.plan)
         /\ Val(o.plan).key_points # <<>>
         /\ start_workflow(t, q, o))
        => Supplemented(Val(ret'.result["retrieved_docs"]), o.retrieval)]_vars
====
